---- MODULE Spec2Model ----
(***************************************************************************)
(* Model of @struktos/logger: StruktosLogger (src/core/StruktosLogger.ts). *)
(* A logger holds its options and its accumulated child metadata; a        *)
(* logging call filters by level, builds a log entry (context enrichment,  *)
(* metadata merge, error split) and hands it to the output sink.           *)
(***************************************************************************)
EXTENDS Integers, Sequences, FiniteSets, TLC

\* ---------------------------------------------------------------- bounds
MaxLoggers == 3
MaxClock == 1
NumFlows == 2
MaxCalls == 2

\* ------------------------------------------------------------------ state
VARIABLES
    loggers,    \* the logger instances, in creation order
    origin,     \* for each logger: how it was created (parent, metadata given)
    ambient,    \* for each flow: the context it runs in, undefined outside run()
    clock,      \* the wall clock
    lastCall,   \* the logging call whose outcome its caller is looking at
    calls,      \* the logging calls made so far, when the run keeps them
    sunk        \* the records a capturing sink has been given, in order

vars == <<loggers, origin, ambient, clock, lastCall, calls, sunk>>

\* ------------------------------------------------------------ JS values
Undef == [t |-> "undefined"]
Null == [t |-> "null"]
Str(s) == [t |-> "string", s |-> s]
Num(n) == [t |-> "number", n |-> n]
Bool(b) == [t |-> "boolean", b |-> b]
Obj(p) == [t |-> "object", p |-> p]
\* an instance of Error: `name` comes from the prototype unless the instance
\* has its own `name`; `own` are the enumerable own properties
ErrorObj(protoName, message, stack, own) ==
    [t |-> "Error", protoName |-> protoName, message |-> message,
     stack |-> stack, own |-> own]

EmptyObj == [k \in {} |-> Undef]

\* an object that cannot be converted to a primitive: Object.create(null),
\* or one whose toString throws
Bare == [t |-> "bare"]

\* JavaScript ToBoolean
Truthy(v) ==
    CASE v.t = "undefined" -> FALSE
      [] v.t = "null" -> FALSE
      [] v.t = "string" -> v.s # ""
      [] v.t = "number" -> v.n # 0
      [] v.t = "boolean" -> v.b
      [] OTHER -> TRUE

\* JavaScript String(v) for the values of the model
NumText(n) ==
    CASE n = 0 -> "0" [] n = 1 -> "1" [] n = 2 -> "2" [] n = 3 -> "3"
      [] n = 42 -> "42" [] OTHER -> "NaN"
String(v) ==
    CASE v.t = "undefined" -> "undefined"
      [] v.t = "null" -> "null"
      [] v.t = "string" -> v.s
      [] v.t = "number" -> NumText(v.n)
      [] v.t = "boolean" -> (IF v.b THEN "true" ELSE "false")
      [] OTHER -> "[object Object]"

\* object spread { ...a, ...b } of two property maps
Merge(a, b) ==
    [k \in (DOMAIN a) \cup (DOMAIN b) |-> IF k \in DOMAIN b THEN b[k] ELSE a[k]]

\* ...x where x may be undefined (spreading undefined adds nothing)
Spread(x) == IF x.t = "object" THEN x.p ELSE EmptyObj

\* ------------------------------------------------------------ constants
LogLevels == {"debug", "info", "warn", "error"}

LOG_LEVELS == [debug |-> 0, info |-> 1, warn |-> 2, error |-> 3]

ContextKeys == {"traceId", "requestId", "userId"}

Flows == 1..NumFlows

\* ------------------------------------------------- StruktosLogger, pure
Nullish(v) == v.t \in {"undefined", "null"}

\* a || b  and  a ?? b
OrElse(a, b) == IF Truthy(a) THEN a ELSE b
Coalesce(a, b) == IF Nullish(a) THEN b ELSE a

Fn(id) == [t |-> "function", id |-> id]
defaultOutput == Fn("defaultOutput")

\* constructor(options = {}, childMetadata = {})
StruktosLogger(options, childMetadata) ==
    [options |->
        [minLevel |-> OrElse(options.minLevel, Str("info")),
         prettyPrint |-> Coalesce(options.prettyPrint, Bool(FALSE)),
         includeStackTrace |-> Coalesce(options.includeStackTrace, Bool(TRUE)),
         defaultMetadata |-> OrElse(options.defaultMetadata, Obj(EmptyObj)),
         output |-> OrElse(options.output, defaultOutput),
         enrichWithContext |-> Coalesce(options.enrichWithContext, Bool(TRUE))],
     childMetadata |-> childMetadata]

createLogger(options) == StruktosLogger(options, EmptyObj)

\* shouldLog with the comparison off by one
shouldLog_strict(this, level) ==
    LOG_LEVELS[level] > LOG_LEVELS[this.options.minLevel.s]

shouldLog(this, level) ==
    LOG_LEVELS[level] >= LOG_LEVELS[this.options.minLevel.s]

\* outcome of a call that may throw
Ret(v) == [threw |-> FALSE, value |-> v]
Throw(who) == [threw |-> TRUE, by |-> who]

\* context.get(key): the stored value, undefined when the key is missing,
\* or an exception when the context's accessor fails for that key
ContextGet(context, key) ==
    IF key \in context.throwsOn THEN Throw("context")
    ELSE IF key \in DOMAIN context.vals THEN Ret(context.vals[key])
    ELSE Ret(Undef)

\* the step without its `if (v)` test
CopyIfTruthy_always(acc, context, key) ==
    IF acc.threw THEN acc
    ELSE LET g == ContextGet(context, key) IN
         IF g.threw THEN g ELSE Ret(Merge(acc.value, (key :> g.value)))

\* one `const v = context.get(key); if (v) contextData[key] = v;` step,
\* applied to the outcome of the steps before it
CopyIfTruthy(acc, context, key) ==
    IF acc.threw THEN acc
    ELSE LET g == ContextGet(context, key) IN
         IF g.threw THEN g
         ELSE IF Truthy(g.value) THEN Ret(Merge(acc.value, (key :> g.value)))
         ELSE acc

\* the try block of extractContextData; `cur` is the outcome of
\* RequestContext.current()
ExtractTry(cur) ==
    IF cur.threw THEN cur
    ELSE IF ~Truthy(cur.value) THEN Ret(EmptyObj)
    ELSE CopyIfTruthy(
            CopyIfTruthy(
              CopyIfTruthy(Ret(EmptyObj), cur.value, "traceId"),
              cur.value, "requestId"),
            cur.value, "userId")

\* extractContextData reading one process-wide context slot instead of the
\* context of the running flow
extractContextData_sharedSlot(cur) ==
    LET r == ExtractTry(Ret(ambient[1])) IN IF r.threw THEN Ret(EmptyObj) ELSE r

\* extractContextData without its catch
extractContextData_noCatch(cur) == ExtractTry(cur)

\* try { ... } catch (error) { return {}; }
extractContextData(cur) ==
    LET r == ExtractTry(cur) IN IF r.threw THEN Ret(EmptyObj) ELSE r

\* String(v), which throws a TypeError on an object without a primitive form
StringOrThrow(v) == IF v.t = "bare" THEN Throw("TypeError") ELSE Ret(String(v))

\* error.name / Object.keys(error) of an Error instance
ErrorName(e) == IF "name" \in DOMAIN e.own THEN e.own["name"] ELSE e.protoName

\* serializeError that ignores includeStackTrace
serializeError_alwaysStack(this, error) ==
    IF ~Truthy(error) THEN Ret(Undef)
    ELSE IF error.t = "Error" THEN
        LET base == [name |-> ErrorName(error), message |-> error.message]
            withStack == IF Truthy(error.stack)
                         THEN Merge(base, [stack |-> error.stack]) ELSE base
            extra == [k \in (DOMAIN error.own) \ {"name", "message", "stack"}
                        |-> error.own[k]]
        IN Ret(Obj(Merge(withStack, extra)))
    ELSE LET text == StringOrThrow(error) IN
         IF text.threw THEN text ELSE Ret(Obj([message |-> Str(text.value)]))

\* serializeError that only treats undefined as absent
serializeError_undefinedOnly(this, error) ==
    IF error.t = "undefined" THEN Ret(Undef)
    ELSE IF error.t = "Error" THEN
        LET base == [name |-> ErrorName(error), message |-> error.message]
            withStack ==
                IF this.options.includeStackTrace.b /\ Truthy(error.stack)
                THEN Merge(base, [stack |-> error.stack]) ELSE base
            extra == [k \in (DOMAIN error.own) \ {"name", "message", "stack"}
                        |-> error.own[k]]
        IN Ret(Obj(Merge(withStack, extra)))
    ELSE LET text == StringOrThrow(error) IN
         IF text.threw THEN text ELSE Ret(Obj([message |-> Str(text.value)]))

serializeError(this, error) ==
    IF ~Truthy(error) THEN Ret(Undef)
    ELSE IF error.t = "Error" THEN
        LET base == [name |-> ErrorName(error), message |-> error.message]
            withStack ==
                IF this.options.includeStackTrace.b /\ Truthy(error.stack)
                THEN Merge(base, [stack |-> error.stack]) ELSE base
            extra == [k \in (DOMAIN error.own) \ {"name", "message", "stack"}
                        |-> error.own[k]]
        IN Ret(Obj(Merge(withStack, extra)))
    ELSE LET text == StringOrThrow(error) IN
         IF text.threw THEN text ELSE Ret(Obj([message |-> Str(text.value)]))

\* error(): { ...metadata, ...(errorData && { error: errorData }) }
ErrorMergedMetadata(this, error, metadata) ==
    LET errorData == serializeError(this, error) IN
    IF errorData.threw THEN errorData
    ELSE Ret(Obj(Merge(Spread(metadata),
                       IF Truthy(errorData.value)
                       THEN [error |-> errorData.value] ELSE EmptyObj)))

\* a timestamp that does not come from the clock
Iso_epoch(ms) == [t |-> "isostring", ms |-> 0]

\* new Date(ms).toISOString()
Iso(ms) == [t |-> "isostring", ms |-> ms]

\* the merge with the child metadata spread last
AllMetadata_childLast(this, metadata) ==
    Merge(Merge(this.options.defaultMetadata.p, Spread(metadata)),
          this.childMetadata)

\* { ...this.options.defaultMetadata, ...this.childMetadata, ...metadata }
AllMetadata(this, metadata) ==
    Merge(Merge(this.options.defaultMetadata.p, this.childMetadata),
          Spread(metadata))

\* the split that leaves `error` among the rest
RestMetadata_keepsError(allMetadata) == allMetadata

\* const { error, ...restMetadata } = allMetadata
RestMetadata(allMetadata) ==
    [k \in (DOMAIN allMetadata) \ {"error"} |-> allMetadata[k]]
ErrorOf(allMetadata) ==
    IF "error" \in DOMAIN allMetadata THEN allMetadata["error"] ELSE Undef

\* the `if (Object.keys(allMetadata).length > 0) { ... }` block
AddMetadata(entry, allMetadata) ==
    IF DOMAIN allMetadata = {} THEN entry
    ELSE LET restMetadata == RestMetadata(allMetadata)
             error == ErrorOf(allMetadata)
             withMetadata == IF DOMAIN restMetadata # {}
                             THEN Merge(entry, [metadata |-> Obj(restMetadata)])
                             ELSE entry
         IN IF Truthy(error) THEN Merge(withMetadata, [error |-> error])
            ELSE withMetadata

\* enrichment that looks the context up whatever enrichWithContext says
Enrich_always(this, cur) ==
    Merge(extractContextData(cur), [queried |-> TRUE])

\* if (this.options.enrichWithContext) { Object.assign(entry,
\* this.extractContextData()) }; `queried` tells whether the context
\* collaborator was asked
Enrich(this, cur) ==
    IF this.options.enrichWithContext.b
    THEN Merge(extractContextData(cur), [queried |-> TRUE])
    ELSE Merge(Ret(EmptyObj), [queried |-> FALSE])

\* buildLogEntry(level, message, metadata); `now` is the clock read by
\* new Date(), `cur` the outcome of RequestContext.current()
buildLogEntry(this, level, message, metadata, now, cur) ==
    LET base == [level |-> Str(level), message |-> Str(message),
                 timestamp |-> Iso(now)]
        contextData == Enrich(this, cur)
        built == IF contextData.threw THEN contextData
                 ELSE Ret(AddMetadata(Merge(base, contextData.value),
                                      AllMetadata(this, metadata)))
    IN Merge(built, [queried |-> contextData.queried])

\* child() that merges into the receiver's own childMetadata object
child_sharedMetadata(ls, l, metadata) ==
    LET merged == Merge(ls[l].childMetadata, Spread(metadata)) IN
    Append([ls EXCEPT ![l].childMetadata = merged],
           StruktosLogger(ls[l].options, merged))

\* child() that builds the new logger from no options at all
child_defaultOptions(ls, l, metadata) ==
    Append(ls, StruktosLogger([minLevel |-> Undef, prettyPrint |-> Undef,
                               includeStackTrace |-> Undef,
                               defaultMetadata |-> Undef, output |-> Undef,
                               enrichWithContext |-> Undef],
                              Merge(ls[l].childMetadata, Spread(metadata))))

\* child(metadata): the logger list after the call; the new logger is last
child(ls, l, metadata) ==
    Append(ls, StruktosLogger(ls[l].options,
                              Merge(ls[l].childMetadata, Spread(metadata))))

\* ------------------------------------------------------------ input sets
\* options handed to createLogger
MinLevelChoices == {Undef} \cup {Str(l) : l \in LogLevels}
FlagChoices == {Undef, Bool(TRUE), Bool(FALSE)}
DefaultAB == Obj([a |-> Num(1), b |-> Num(1)])
DefaultMetadataChoices ==
    {Undef, DefaultAB, Obj([error |-> Str("default-error")])}

\* metadata handed to child()
ChildMetadataChoices ==
    {Obj([b |-> Num(2), c |-> Num(2)]), Obj([a |-> Num(2), error |-> Str("child-error")])}

\* metadata handed to a logging call
CallCD == Obj([c |-> Num(3), d |-> Num(3)])
CallMetadataChoices ==
    {Undef, CallCD, Obj([a |-> Num(3), error |-> Str("call-error")]),
     Obj([error |-> Num(0)])}

\* values handed to error() as its second argument
Boom == ErrorObj(Str("Error"), Str("boom"), Str("Error: boom at f"), EmptyObj)
ErrorChoices ==
    {Boom,
     ErrorObj(Str("Error"), Str("bad"), Undef,
              [name |-> Str("ValidationError"), code |-> Str("E42")])}
NonErrorChoices ==
    {Str("just a string"), Str(""), Num(42), Num(0), Bool(TRUE), Bool(FALSE),
     Obj(EmptyObj)}
ErrorArgChoices == {Undef, Null, Bare} \cup ErrorChoices \cup NonErrorChoices

Messages == {"msg"}

\* the context a flow runs in: RequestContext.run({...}, callback)
FlowId(prefix, f) ==
    Str(CASE f = 1 -> prefix \o "1" [] f = 2 -> prefix \o "2" [] OTHER -> prefix \o "3")
Context(vals, throwsOn) == [t |-> "context", vals |-> vals, throwsOn |-> throwsOn]
\* all three identifiers; a falsy userId and no requestId; an accessor that
\* fails on userId
ContextShapes == {"full", "partial", "failing"}
ContextOf(shape, f) ==
    CASE shape = "full" ->
            Context([traceId |-> FlowId("trace-", f), requestId |-> FlowId("req-", f),
                     userId |-> FlowId("user-", f)], {})
      [] shape = "partial" ->
            Context([traceId |-> FlowId("trace-", f), userId |-> Str("")], {})
      [] shape = "failing" ->
            Context([traceId |-> FlowId("trace-", f), requestId |-> FlowId("req-", f)],
                    {"userId"})

\* ------------------------------------------------------------ the program
NoCall == [op |-> "none"]

\* the program starts with one logger made by createLogger(options)
InitOf(Options) ==
    /\ \E options \in Options :
          /\ loggers = <<createLogger(options)>>
          /\ origin = <<[parent |-> 0, metadata |-> Obj(EmptyObj), options |-> options]>>
    /\ ambient = [f \in Flows |-> Undef]
    /\ clock = 0
    /\ lastCall = NoCall
    /\ calls = << >>
    /\ sunk = << >>

\* RequestContext.current() as seen by flow f; the collaborator may fail
Current(f, fails) == IF fails THEN Throw("context") ELSE Ret(ambient[f])

\* a sink that swallows its own failure
Observe_swallow(call, this, level, built, sinkThrows) ==
    IF ~shouldLog(this, level)
    THEN Merge(call, [sinkCalls |-> 0, thrown |-> "none", queried |-> FALSE])
    ELSE IF built.threw
    THEN Merge(call, [sinkCalls |-> 0, thrown |-> built.by,
                      queried |-> built.queried])
    ELSE Merge(call, [sinkCalls |-> 1, entry |-> built.value,
                      sink |-> this.options.output, thrown |-> "none",
                      queried |-> built.queried])

\* the body of log() as its caller and the sink see it:
\* if (!this.shouldLog(level)) return; const entry = this.buildLogEntry(...);
\* this.options.output(entry), whose exception nothing catches
Observe(call, this, level, built, sinkThrows) ==
    IF ~shouldLog(this, level)
    THEN Merge(call, [sinkCalls |-> 0, thrown |-> "none", queried |-> FALSE])
    ELSE IF built.threw
    THEN Merge(call, [sinkCalls |-> 0, thrown |-> built.by,
                      queried |-> built.queried])
    ELSE Merge(call, [sinkCalls |-> 1, entry |-> built.value,
                      sink |-> this.options.output,
                      thrown |-> IF sinkThrows THEN "sink" ELSE "none",
                      queried |-> built.queried])

\* a sink that puts the newest record first
Deliver_front(records, entry) == <<entry>> \o records

\* this.options.output(entry) with a sink that keeps what it is given, as
\* `output: (entry) => records.push(entry)`
Deliver(records, entry) == Append(records, entry)

\* the arguments and surroundings of one logging call
Call(l, f, level, message, given, error, currentFails, sinkThrows) ==
    [op |-> "log", logger |-> l, flow |-> f, level |-> level,
     message |-> message, metadata |-> given, error |-> error,
     ambient |-> ambient[f], currentFails |-> currentFails,
     sinkThrows |-> sinkThrows, now |-> clock]

\* the call ends, by a return or by an exception; a run that keeps its
\* history notes the call and what its sink was given
Complete(I, outcome) ==
    /\ lastCall = NoCall
    /\ lastCall' = outcome
    /\ IF I.capture
       THEN /\ Len(calls) < MaxCalls
            /\ calls' = Append(calls, [logger |-> outcome.logger,
                                       level |-> outcome.level,
                                       message |-> outcome.message,
                                       now |-> outcome.now,
                                       sinkCalls |-> outcome.sinkCalls])
            /\ sunk' = IF outcome.sinkCalls = 1
                       THEN Deliver(sunk, outcome.entry) ELSE sunk
       ELSE UNCHANGED <<calls, sunk>>
    /\ UNCHANGED <<loggers, origin, ambient, clock>>

\* log(level, message, metadata) by flow f on logger l; `given` and `error`
\* are the arguments of the public method that made the call
log(I, l, f, level, message, metadata, given, error, currentFails, sinkThrows) ==
    LET this == loggers[l] IN
    Complete(I, Observe(Call(l, f, level, message, given, error,
                             currentFails, sinkThrows),
                        this, level,
                        buildLogEntry(this, level, message, metadata, clock,
                                      Current(f, currentFails)),
                        sinkThrows))

\* debug/info/warn have no error argument
NoError == [t |-> "absent"]

Debug(I) ==
    \E l \in DOMAIN loggers, f \in Flows, message \in I.message,
       metadata \in I.metadata, currentFails \in I.currentFails,
       sinkThrows \in I.sinkThrows :
        log(I, l, f, "debug", message, metadata, metadata, NoError,
            currentFails, sinkThrows)

Info(I) ==
    \E l \in DOMAIN loggers, f \in Flows, message \in I.message,
       metadata \in I.metadata, currentFails \in I.currentFails,
       sinkThrows \in I.sinkThrows :
        log(I, l, f, "info", message, metadata, metadata, NoError,
            currentFails, sinkThrows)

Warn(I) ==
    \E l \in DOMAIN loggers, f \in Flows, message \in I.message,
       metadata \in I.metadata, currentFails \in I.currentFails,
       sinkThrows \in I.sinkThrows :
        log(I, l, f, "warn", message, metadata, metadata, NoError,
            currentFails, sinkThrows)

\* error(message, error, metadata): the error is serialized before log()
\* is entered, so an exception of serializeError ends the call there
Error(I) ==
    \E l \in DOMAIN loggers, f \in Flows, message \in I.message,
       error \in I.error, metadata \in I.metadata,
       currentFails \in I.currentFails, sinkThrows \in I.sinkThrows :
        LET mergedMetadata == ErrorMergedMetadata(loggers[l], error, metadata) IN
        IF mergedMetadata.threw
        THEN Complete(I, Merge(Call(l, f, "error", message, metadata, error,
                                    currentFails, sinkThrows),
                               [sinkCalls |-> 0, thrown |-> mergedMetadata.by,
                                queried |-> FALSE]))
        ELSE log(I, l, f, "error", message, mergedMetadata.value, metadata,
                 error, currentFails, sinkThrows)

\* the logging call is over: its caller goes on.  A call is synchronous, so
\* no other step of the program runs between a call and its return.
Returned ==
    /\ lastCall # NoCall
    /\ lastCall' = NoCall
    /\ UNCHANGED <<loggers, origin, ambient, clock, calls, sunk>>

Child(I) ==
    \E l \in DOMAIN loggers, metadata \in I.childMetadata :
        /\ lastCall = NoCall
        /\ Len(loggers) < MaxLoggers
        /\ loggers' = child(loggers, l, metadata)
        /\ origin' = Append(origin, [parent |-> l, metadata |-> metadata])
        /\ UNCHANGED <<ambient, clock, lastCall, calls, sunk>>

\* RequestContext.run(context, callback): flow f starts inside its own scope
Run(I) ==
    \E f \in Flows, shape \in I.contexts :
        /\ lastCall = NoCall
        /\ ambient[f] = Undef
        /\ ambient' = [ambient EXCEPT ![f] = ContextOf(shape, f)]
        /\ UNCHANGED <<loggers, origin, clock, lastCall, calls, sunk>>

\* the callback of flow f completes
Leave ==
    \E f \in Flows :
        /\ lastCall = NoCall
        /\ ambient[f] # Undef
        /\ ambient' = [ambient EXCEPT ![f] = Undef]
        /\ UNCHANGED <<loggers, origin, clock, lastCall, calls, sunk>>

Tick ==
    /\ lastCall = NoCall
    /\ clock < MaxClock
    /\ clock' = clock + 1
    /\ UNCHANGED <<loggers, origin, ambient, lastCall, calls, sunk>>

NextOf(I) ==
    \/ Debug(I) \/ Info(I) \/ Warn(I) \/ Error(I) \/ Returned
    \/ Child(I) \/ Run(I) \/ Leave \/ Tick

\* ------------------------------------------------------- specifications
DefaultOptions ==
    [minLevel |-> Undef, prettyPrint |-> Undef, includeStackTrace |-> Undef,
     defaultMetadata |-> Undef, output |-> Undef, enrichWithContext |-> Undef]

\* the whole program: every minLevel, every level, children, flows, clock
LevelOptions ==
    {[DefaultOptions EXCEPT !.minLevel = m] : m \in MinLevelChoices}
LevelInputs ==
    [message |-> Messages, metadata |-> {Undef}, error |-> {Boom},
     childMetadata |-> ChildMetadataChoices, contexts |-> {"full"},
     currentFails |-> {FALSE}, sinkThrows |-> {FALSE}, capture |-> FALSE]
Init == InitOf(LevelOptions)
Next == NextOf(LevelInputs)
Spec == Init /\ [][Next]_vars

\* metadata: every default, child and per-call metadata, with and without
\* an error, on chains of children
MetadataOptions ==
    {[DefaultOptions EXCEPT !.minLevel = m, !.defaultMetadata = d] :
        m \in {Undef, Str("debug")}, d \in DefaultMetadataChoices}
MetadataInputs ==
    [message |-> Messages, metadata |-> CallMetadataChoices,
     error |-> {Undef, Null, Boom, Num(0)},
     childMetadata |-> ChildMetadataChoices, contexts |-> {},
     currentFails |-> {FALSE}, sinkThrows |-> {FALSE}, capture |-> FALSE]
InitMetadata == InitOf(MetadataOptions)
NextMetadata ==
    \/ Debug(MetadataInputs) \/ Info(MetadataInputs) \/ Warn(MetadataInputs)
    \/ Error(MetadataInputs) \/ Returned \/ Child(MetadataInputs)
SpecMetadata == InitMetadata /\ [][NextMetadata]_vars

\* context enrichment: flows entering and leaving their scopes in any
\* order, a collaborator that may fail, a sink that may throw
ContextOptions ==
    {[DefaultOptions EXCEPT !.minLevel = m, !.enrichWithContext = e] :
        m \in {Undef, Str("warn")}, e \in FlagChoices}
ContextInputs ==
    [message |-> Messages, metadata |-> {Undef, CallCD}, error |-> {Undef, Boom},
     childMetadata |-> {}, contexts |-> ContextShapes,
     currentFails |-> BOOLEAN, sinkThrows |-> BOOLEAN, capture |-> FALSE]
InitContext == InitOf(ContextOptions)
NextContext ==
    \/ Debug(ContextInputs) \/ Info(ContextInputs) \/ Warn(ContextInputs)
    \/ Error(ContextInputs) \/ Returned \/ Run(ContextInputs) \/ Leave
SpecContext == InitContext /\ [][NextContext]_vars

\* error(): every kind of error value, with and without stack traces
ErrorOptions ==
    {[DefaultOptions EXCEPT !.includeStackTrace = s, !.defaultMetadata = d] :
        s \in FlagChoices, d \in DefaultMetadataChoices}
ErrorInputs ==
    [message |-> Messages, metadata |-> CallMetadataChoices,
     error |-> ErrorArgChoices, childMetadata |-> {}, contexts |-> {},
     currentFails |-> {FALSE}, sinkThrows |-> BOOLEAN, capture |-> FALSE]
InitError == InitOf(ErrorOptions)
NextError == Error(ErrorInputs) \/ Returned
SpecError == InitError /\ [][NextError]_vars

\* configuration: every option set or left out, chains of children
ConfigOptions ==
    {[minLevel |-> m, prettyPrint |-> Undef, includeStackTrace |-> s,
      defaultMetadata |-> d, output |-> o, enrichWithContext |-> e] :
        m \in MinLevelChoices, s \in FlagChoices, d \in {Undef, DefaultAB},
        o \in {Undef, Fn("sink")}, e \in FlagChoices}
ConfigInputs ==
    [message |-> Messages, metadata |-> {Undef}, error |-> {Boom},
     childMetadata |-> {CallCD}, contexts |-> {},
     currentFails |-> {FALSE}, sinkThrows |-> {FALSE}, capture |-> FALSE]
InitConfig == InitOf(ConfigOptions)
NextConfig ==
    \/ Info(ConfigInputs) \/ Error(ConfigInputs) \/ Returned
    \/ Child(ConfigInputs)
SpecConfig == InitConfig /\ [][NextConfig]_vars

\* a failing sink: calls of every kind on a logger and its children, with a
\* sink that may throw on any record
ThrowOptions ==
    {[DefaultOptions EXCEPT !.minLevel = m, !.output = Fn("sink")] :
        m \in {Undef, Str("debug"), Str("error")}}
ThrowInputs ==
    [message |-> Messages, metadata |-> {Undef, CallCD}, error |-> {Undef, Boom},
     childMetadata |-> ChildMetadataChoices, contexts |-> {},
     currentFails |-> {FALSE}, sinkThrows |-> BOOLEAN, capture |-> FALSE]
InitThrow == InitOf(ThrowOptions)
NextThrow ==
    \/ Debug(ThrowInputs) \/ Info(ThrowInputs) \/ Warn(ThrowInputs)
    \/ Error(ThrowInputs) \/ Returned \/ Child(ThrowInputs)
SpecThrow == InitThrow /\ [][NextThrow]_vars

\* the clock: calls at different times on a logger and its children, with
\* a sink that keeps the records
ClockOptions ==
    {[DefaultOptions EXCEPT !.minLevel = m, !.output = Fn("sink")] :
        m \in {Undef, Str("warn")}}
ClockInputs ==
    [message |-> Messages, metadata |-> {Undef}, error |-> {Boom},
     childMetadata |-> {CallCD}, contexts |-> {},
     currentFails |-> {FALSE}, sinkThrows |-> {FALSE}, capture |-> TRUE]
InitClock == InitOf(ClockOptions)
NextClock ==
    \/ Info(ClockInputs) \/ Warn(ClockInputs) \/ Returned
    \/ Child(ClockInputs) \/ Tick
SpecClock == InitClock /\ [][NextClock]_vars

\* the sink: sequences of calls with different messages, filtered or not,
\* on a logger and its children, with a sink that keeps the records
SinkOptions ==
    {[DefaultOptions EXCEPT !.minLevel = m, !.output = Fn("sink")] :
        m \in {Undef, Str("debug")}}
SinkInputs ==
    [message |-> {"first", "second"}, metadata |-> {Undef}, error |-> {Boom},
     childMetadata |-> {CallCD}, contexts |-> {},
     currentFails |-> {FALSE}, sinkThrows |-> {FALSE}, capture |-> TRUE]
InitSink == InitOf(SinkOptions)
NextSink ==
    \/ Debug(SinkInputs) \/ Warn(SinkInputs) \/ Returned
    \/ Child(SinkInputs)
SpecSink == InitSink /\ [][NextSink]_vars

\* ---------------------------------------------------------------- claims
\* the logger created by createLogger from which logger l descends
RECURSIVE RootOf(_)
RootOf(l) == IF origin[l].parent = 0 THEN l ELSE RootOf(origin[l].parent)

\* the options object the program handed to createLogger for l's chain
ConfiguredOptions(l) == origin[RootOf(l)].options

Rank(level) ==
    CASE level = "debug" -> 0 [] level = "info" -> 1
      [] level = "warn" -> 2 [] level = "error" -> 3

\* the minLevel in force: the configured one, "info" when none was given
MinLevelOf(l) ==
    IF ConfiguredOptions(l).minLevel.t = "string"
    THEN ConfiguredOptions(l).minLevel.s ELSE "info"

Logged == lastCall.op = "log"
Emitted == Logged /\ lastCall.sinkCalls = 1

\* C1: a logging call at level L on a logger configured with minLevel M
\* invokes the sink exactly once when rank(L) >= rank(M) and not at all
\* otherwise, on the root logger and on every child, after any calls.
C1_LevelFiltering ==
    Logged =>
        lastCall.sinkCalls =
            IF Rank(lastCall.level) >= Rank(MinLevelOf(lastCall.logger))
            THEN 1 ELSE 0

C1_Witness ==
    /\ Logged
    /\ lastCall.logger > 1
    /\ ConfiguredOptions(lastCall.logger).minLevel = Str("warn")
    /\ lastCall.level = "warn"
    /\ lastCall.sinkCalls = 1

\* what lastCall.logger was configured with
Entry == lastCall.entry
NotFiltered == Rank(lastCall.level) >= Rank(MinLevelOf(lastCall.logger))
ConfiguredDefault(l) ==
    IF ConfiguredOptions(l).defaultMetadata.t = "object"
    THEN ConfiguredOptions(l).defaultMetadata.p ELSE EmptyObj
EnrichOn(l) == ConfiguredOptions(l).enrichWithContext # Bool(FALSE)
StackOn(l) == ConfiguredOptions(l).includeStackTrace # Bool(FALSE)

\* the per-call metadata as a property map
Given == IF lastCall.metadata.t = "object" THEN lastCall.metadata.p ELSE EmptyObj

\* the record's metadata field as a property map, empty when the field is absent
MetaOf(entry) == IF "metadata" \in DOMAIN entry THEN entry["metadata"].p ELSE EmptyObj

Has(entry, field) == field \in DOMAIN entry

\* C2: in every emitted record each non-error metadata key takes its value
\* from the per-call metadata, else from the logger's child metadata, else
\* from defaultMetadata, and the keys are the union of their non-error keys.
C2_MergePrecedence ==
    Emitted =>
        LET d == ConfiguredDefault(lastCall.logger)
            c == loggers[lastCall.logger].childMetadata
            m == Given
            keys == ((DOMAIN d) \cup (DOMAIN c) \cup (DOMAIN m)) \ {"error"}
        IN /\ DOMAIN MetaOf(Entry) = keys
           /\ \A k \in keys :
                MetaOf(Entry)[k] = IF k \in DOMAIN m THEN m[k]
                                   ELSE IF k \in DOMAIN c THEN c[k] ELSE d[k]

\* the example of the specification: {a:1,b:1}, child {b:2,c:2}, call {c:3,d:3}
C2_Witness ==
    /\ Emitted
    /\ ConfiguredDefault(lastCall.logger) = [a |-> Num(1), b |-> Num(1)]
    /\ loggers[lastCall.logger].childMetadata = [b |-> Num(2), c |-> Num(2)]
    /\ Given = [c |-> Num(3), d |-> Num(3)]
    /\ MetaOf(Entry) = [a |-> Num(1), b |-> Num(2), c |-> Num(3), d |-> Num(3)]

\* C3: a record's metadata never has the key `error`, and the metadata field
\* is present exactly when default, child and per-call metadata together
\* have a key other than `error`; it is never an empty map.
C3_MetadataField ==
    Emitted =>
        LET keys == ((DOMAIN ConfiguredDefault(lastCall.logger))
                        \cup (DOMAIN loggers[lastCall.logger].childMetadata)
                        \cup (DOMAIN Given)) \ {"error"}
        IN /\ Has(Entry, "metadata") <=> keys # {}
           /\ Has(Entry, "metadata") =>
                 /\ "error" \notin DOMAIN Entry["metadata"].p
                 /\ DOMAIN Entry["metadata"].p # {}

\* only `error` keys were given: the field is left out
C3_Witness ==
    /\ Emitted
    /\ DOMAIN ConfiguredDefault(lastCall.logger) = {"error"}
    /\ DOMAIN Given = {"error"}
    /\ ~Has(Entry, "metadata")

\* the child metadata a logger was given on the way from its root, in order
RECURSIVE Accumulated(_)
Accumulated(l) ==
    IF origin[l].parent = 0 THEN EmptyObj
    ELSE Merge(Accumulated(origin[l].parent), Spread(origin[l].metadata))

NonError(m) == [k \in (DOMAIN m) \ {"error"} |-> m[k]]

\* C4: child() leaves its receiver as it was: every logger keeps the child
\* metadata it was created with, which is its parent's overridden by the
\* metadata given to child(), and a record holds only defaultMetadata, that
\* metadata and the per-call metadata, whatever children or siblings exist.
C4_ChildIndependence ==
    /\ \A l \in DOMAIN loggers :
          /\ loggers[l].childMetadata = Accumulated(l)
          /\ origin[l].parent # 0 =>
                loggers[l].childMetadata =
                    Merge(loggers[origin[l].parent].childMetadata,
                          Spread(origin[l].metadata))
    /\ Emitted =>
          MetaOf(Entry) =
              NonError(Merge(Merge(ConfiguredDefault(lastCall.logger),
                                   Accumulated(lastCall.logger)),
                             Given))

\* a parent logs after a child and a grandchild were made from it
C4_Witness ==
    /\ Emitted
    /\ Len(loggers) = 3
    /\ origin[2].parent = 1
    /\ origin[3].parent = 2
    /\ origin[3].metadata # origin[2].metadata
    /\ lastCall.logger = 2
    /\ DOMAIN MetaOf(Entry) = {"b", "c"}

\* the context of the calling flow, when current() returned one whose
\* accessor answers for every key
ContextActive ==
    /\ lastCall.ambient.t = "context"
    /\ ~lastCall.currentFails
    /\ lastCall.ambient.throwsOn \cap ContextKeys = {}

\* C5: with enrichWithContext on and an ambient context active, the record
\* has the top-level field k (traceId, requestId, userId), equal to the
\* context's value, exactly when the context holds a truthy value for k.
C5_ContextEnrichment ==
    (Emitted /\ EnrichOn(lastCall.logger) /\ ContextActive) =>
        \A k \in ContextKeys :
            LET vals == lastCall.ambient.vals IN
            /\ Has(Entry, k) <=> (k \in DOMAIN vals /\ Truthy(vals[k]))
            /\ Has(Entry, k) => Entry[k] = vals[k]

\* a context with a falsy userId and no requestId
C5_Witness ==
    /\ Emitted /\ EnrichOn(lastCall.logger) /\ ContextActive
    /\ lastCall.ambient.vals["userId"] = Str("")
    /\ "requestId" \notin DOMAIN lastCall.ambient.vals
    /\ Has(Entry, "traceId")
    /\ ~Has(Entry, "userId")

\* there is no current context, or current() or a get(key) throws
ContextUnavailable ==
    \/ lastCall.ambient = Undef
    \/ lastCall.currentFails
    \/ /\ lastCall.ambient.t = "context"
       /\ lastCall.ambient.throwsOn \cap ContextKeys # {}

\* C6: with enrichWithContext on, a non-filtered call made when there is no
\* current context or when the lookup throws still invokes the sink exactly
\* once, with a record that has no traceId, requestId or userId, and the
\* lookup's exception never reaches the caller.
C6_ContextUnavailable ==
    (Logged /\ NotFiltered /\ EnrichOn(lastCall.logger) /\ ContextUnavailable) =>
        /\ lastCall.sinkCalls = 1
        /\ \A k \in ContextKeys : ~Has(Entry, k)
        /\ lastCall.thrown # "context"
        /\ ~lastCall.sinkThrows => lastCall.thrown = "none"

\* get('userId') throws after traceId was read
C6_Witness ==
    /\ Logged /\ NotFiltered /\ EnrichOn(lastCall.logger)
    /\ lastCall.ambient.t = "context"
    /\ "userId" \in lastCall.ambient.throwsOn
    /\ ~lastCall.currentFails
    /\ lastCall.sinkCalls = 1
    /\ lastCall.thrown = "none"

\* error() was called
ErrorCall == Logged /\ lastCall.level = "error"

\* C7: error(message, e, metadata) with e an Error gives a record whose
\* error field has e's name and message, has e's stack exactly when
\* includeStackTrace is on and e has a stack, and has every other
\* enumerable own property of e unchanged; its metadata has no `error`.
C7_ErrorSerialization ==
    (ErrorCall /\ lastCall.error.t = "Error") =>
        /\ Emitted
        /\ Has(Entry, "error")
        /\ Entry["error"].t = "object"
        /\ LET e == lastCall.error
               out == Entry["error"].p
           IN /\ {"name", "message"} \subseteq DOMAIN out
              /\ out["name"] = ErrorName(e)
              /\ out["message"] = e.message
              /\ ("stack" \in DOMAIN out) <=>
                     (StackOn(lastCall.logger) /\ Truthy(e.stack))
              /\ "stack" \in DOMAIN out => out["stack"] = e.stack
              /\ \A k \in (DOMAIN e.own) \ {"name", "message", "stack"} :
                     k \in DOMAIN out /\ out[k] = e.own[k]
        /\ "error" \notin DOMAIN MetaOf(Entry)

\* an Error with a stack, logged with includeStackTrace: false and metadata
C7_Witness ==
    /\ ErrorCall
    /\ lastCall.error = Boom
    /\ ~StackOn(lastCall.logger)
    /\ Given = [a |-> Num(3), error |-> Str("call-error")]
    /\ Entry["error"] = Obj([name |-> Str("Error"), message |-> Str("boom")])

\* C8: error(message, v) with v non-nullish and not an Error gives a record
\* whose error field is exactly {message: String(v)}.
C8_NonErrorValue ==
    (ErrorCall /\ lastCall.error.t \in {"string", "number", "boolean", "object"}) =>
        /\ Emitted
        /\ Has(Entry, "error")
        /\ Entry["error"] = Obj([message |-> Str(String(lastCall.error))])

\* the value default, child and per-call metadata hold under `error`
MergedError ==
    LET all == Merge(Merge(ConfiguredDefault(lastCall.logger),
                           loggers[lastCall.logger].childMetadata), Given)
    IN IF "error" \in DOMAIN all THEN all["error"] ELSE Undef

\* C9 as stated: error(message, e, metadata) with e null or undefined gives
\* a record with no error field, whatever the metadata.
C9_NoErrorField ==
    (ErrorCall /\ Nullish(lastCall.error)) => (Emitted /\ ~Has(Entry, "error"))

\* C9 as amended: with e null or undefined the record has an error field
\* only when default, child and per-call metadata together hold a truthy
\* value under `error`, and the field is then that value.
C9_NullishError ==
    (ErrorCall /\ Nullish(lastCall.error)) =>
        /\ Emitted
        /\ Has(Entry, "error") <=> Truthy(MergedError)
        /\ Has(Entry, "error") => Entry["error"] = MergedError

\* null with metadata that has no `error`: no error field
C9_Witness ==
    /\ ErrorCall
    /\ lastCall.error = Null
    /\ Given = [c |-> Num(3), d |-> Num(3)]
    /\ ConfiguredDefault(lastCall.logger) = [a |-> Num(1), b |-> Num(1)]
    /\ ~Has(Entry, "error")

\* the identifiers of a flow, in any context it may run in
IdsOf(f) ==
    UNION {{ContextOf(shape, f).vals[k] : k \in DOMAIN ContextOf(shape, f).vals}
              : shape \in ContextShapes} \ {Str("")}

\* C10: when flows log through one logger in any interleaving, a record
\* carries only identifiers of the context of the flow that made the call,
\* never one of another flow or of an earlier call.
C10_FlowIsolation ==
    Emitted =>
        \A k \in ContextKeys :
            Has(Entry, k) =>
                /\ lastCall.ambient.t = "context"
                /\ k \in DOMAIN lastCall.ambient.vals
                /\ Entry[k] = lastCall.ambient.vals[k]
                /\ \A g \in Flows \ {lastCall.flow} : Entry[k] \notin IdsOf(g)

\* flow 2 logs while flow 1 is inside its own scope
C10_Witness ==
    /\ Emitted
    /\ lastCall.flow = 2
    /\ ambient[1].t = "context"
    /\ ambient[2].t = "context"
    /\ Has(Entry, "traceId")
    /\ Entry["traceId"] = Str("trace-2")

\* the record the sink was given for the i-th call of the history
NotFilteredCall(c) == Rank(c.level) >= Rank(MinLevelOf(c.logger))
EmittedBefore(i) == Cardinality({k \in 1..i : calls[k].sinkCalls = 1})
RecordOf(i) == sunk[EmittedBefore(i)]

\* C11: of two non-filtered calls made one after the other on the same
\* logger, the second's record has a timestamp not earlier than the
\* first's, and every record's timestamp is the clock value at its own
\* call.  The clock is the wall clock of a machine whose time is not set
\* back.
C11_Timestamps ==
    \A i \in DOMAIN calls :
        NotFilteredCall(calls[i]) =>
            /\ calls[i].sinkCalls = 1
            /\ RecordOf(i)["timestamp"] = [t |-> "isostring", ms |-> calls[i].now]
            /\ \A j \in DOMAIN calls :
                  (i < j /\ calls[j].logger = calls[i].logger
                         /\ NotFilteredCall(calls[j])) =>
                      RecordOf(i)["timestamp"].ms <= RecordOf(j)["timestamp"].ms

C11_Witness ==
    /\ Len(calls) = 2
    /\ Len(sunk) = 2
    /\ calls[1].logger = calls[2].logger
    /\ calls[1].logger > 1
    /\ sunk[1]["timestamp"].ms = 0
    /\ sunk[2]["timestamp"].ms = 1

\* C12 as stated: error(message, v, metadata) with a sink that does not
\* throw returns normally and invokes the sink exactly once, whatever v is.
C12_AnyErrorValue ==
    (ErrorCall /\ ~lastCall.sinkThrows) =>
        /\ lastCall.thrown = "none"
        /\ lastCall.sinkCalls = 1

\* the merged metadata of the call: defaultMetadata, then the child
\* metadata, then the per-call metadata, then for error() the serialized
\* error
MergedMetadata ==
    LET this == loggers[lastCall.logger]
        plain == Merge(Merge(ConfiguredDefault(lastCall.logger),
                             this.childMetadata), Given)
    IN IF lastCall.error = NoError THEN plain
       ELSE LET errorData == serializeError(this, lastCall.error) IN
            IF ~errorData.threw /\ errorData.value # Undef
            THEN Merge(plain, [error |-> errorData.value]) ELSE plain

\* C13 as stated: in every emitted record, a value the merged metadata
\* holds under `error` is the record's error field, whatever the value.
C13_ErrorKey ==
    (Emitted /\ "error" \in DOMAIN MergedMetadata) =>
        /\ Has(Entry, "error")
        /\ Entry["error"] = MergedMetadata["error"]

\* C14: when the sink throws on a record, the call ends with the sink's
\* exception, the sink was invoked once, and neither the call nor its
\* return changes any logger.
C14_SinkThrows ==
    [][/\ (lastCall = NoCall /\ lastCall' # NoCall /\ lastCall'.sinkThrows
            /\ Rank(lastCall'.level) >= Rank(MinLevelOf(lastCall'.logger))) =>
               /\ lastCall'.thrown = "sink"
               /\ lastCall'.sinkCalls = 1
               /\ loggers' = loggers
       /\ (lastCall # NoCall /\ lastCall' = NoCall) => loggers' = loggers]_vars

C14_Witness ==
    /\ Logged
    /\ lastCall.logger > 1
    /\ lastCall.sinkThrows
    /\ lastCall.sinkCalls = 1
    /\ lastCall.thrown = "sink"

\* C15: every logger made by child(), at any depth, has its parent's
\* minLevel, output, includeStackTrace, enrichWithContext and
\* defaultMetadata; it filters as the configured minLevel says and its
\* records go to the sink of the logger its chain started from.
C15_SharedConfiguration ==
    /\ \A l \in DOMAIN loggers :
          origin[l].parent # 0 =>
              \A k \in {"minLevel", "output", "includeStackTrace",
                         "enrichWithContext", "defaultMetadata"} :
                  loggers[l].options[k] = loggers[origin[l].parent].options[k]
    /\ Logged =>
          lastCall.sinkCalls = (IF NotFiltered THEN 1 ELSE 0)
    /\ Emitted =>
          lastCall.sink = loggers[RootOf(lastCall.logger)].options.output

C15_Witness ==
    /\ Emitted
    /\ origin[lastCall.logger].parent > 1
    /\ lastCall.level = "info"
    /\ ConfiguredOptions(lastCall.logger).minLevel = Str("debug")
    /\ ConfiguredOptions(lastCall.logger).output = Fn("sink")
    /\ lastCall.sink = Fn("sink")

\* C16: a logger with enrichWithContext=false never asks the context
\* collaborator, and its records have no traceId, requestId or userId,
\* also when the call is made inside a context holding all three.
C16_EnrichmentOff ==
    (Logged /\ ~EnrichOn(lastCall.logger)) =>
        /\ ~lastCall.queried
        /\ Emitted => \A k \in ContextKeys : ~Has(Entry, k)

C16_Witness ==
    /\ Emitted
    /\ ConfiguredOptions(lastCall.logger).enrichWithContext = Bool(FALSE)
    /\ ~lastCall.currentFails
    /\ lastCall.ambient = ContextOf("full", lastCall.flow)
    /\ ~lastCall.queried

\* the calls of the history that are not filtered, in call order
NotFilteredCalls == SelectSeq(calls, NotFilteredCall)

\* C17: the sink has received one record for each non-filtered call, in
\* call order, each with the level and message of its call, and a call
\* whose record is due has delivered it, last, when the call ends.
C17_SinkOrder ==
    /\ Len(sunk) = Len(NotFilteredCalls)
    /\ \A i \in DOMAIN sunk :
          /\ sunk[i]["level"] = Str(NotFilteredCalls[i].level)
          /\ sunk[i]["message"] = Str(NotFilteredCalls[i].message)
    /\ (Logged /\ NotFiltered) =>
          /\ lastCall.sinkCalls = 1
          /\ sunk # << >>
          /\ sunk[Len(sunk)] = lastCall.entry

C17_Witness ==
    /\ Logged
    /\ Len(calls) = 2
    /\ Len(sunk) = 2
    /\ calls[1].logger # calls[2].logger
    /\ sunk[1]["message"] = Str("first")
    /\ sunk[2]["message"] = Str("second")
    /\ sunk[1]["level"] = Str("warn")
    /\ sunk[2]["level"] = Str("debug")

====
